---- MODULE Spec2Model ----
(***************************************************************************)
(* Linechart-Microservice (src/main.cpp): the POST /charts/line pipeline   *)
(* (validation, series construction, Y range, coordinate merge, image      *)
(* save), the retrieval route /charts/line/result/<arg> and the routing of *)
(* requests to handlers, each handler running as a task on the worker      *)
(* pool.                                                                   *)
(*                                                                         *)
(* JSON values are records tagged by t: "num" (v), "str" (s), "null",      *)
(* "arr" (a, a sequence), "obj" (o, a function from keys to values),       *)
(* "undef" (QJsonValue::Undefined) and "raw" (bytes that are not JSON).    *)
(* Reals are modelled by integers.                                         *)
(***************************************************************************)
EXTENDS Integers, Sequences, FiniteSets, TLC

VARIABLES
    tasks,      \* the requests received so far, in order of arrival: one task record each
    files,      \* the image directory: file name -> bytes
    issued,     \* the values QUuid::createUuid has returned
    xPoints,    \* mergeCoordinates: the caller's xPoints
    yPoints,    \* mergeCoordinates: the caller's yPoints
    points,     \* mergeCoordinates: the local vector points
    y,          \* mergeCoordinates: the local copy y
    idx,        \* mergeCoordinates: the index of the point the second loop is at
    mpc         \* mergeCoordinates: position ("entry", "copy", "loop", "done")

vars == <<tasks, files, issued, xPoints, yPoints, points, y, idx, mpc>>
serverVars == <<tasks, files, issued>>
mergeVars == <<xPoints, yPoints, points, y, idx, mpc>>

----------------------------------------------------------------------------
(* Bounds of the model.                                                    *)

MaxTasks == 2       \* requests per behaviour of the server
MaxUuid == 2        \* distinct non-nil UUID values
MaxLen == 3         \* length of xPoints / yPoints given to mergeCoordinates
MaxSeries == 2      \* series objects in the nested array of a request

----------------------------------------------------------------------------
(* JSON values and the QJsonValue / QJsonObject accessors the handler uses *)

Num(n) == [t |-> "num", v |-> n]
Str(s) == [t |-> "str", s |-> s]
Null == [t |-> "null"]
Undefined == [t |-> "undef"]
Arr(seq) == [t |-> "arr", a |-> seq]
Obj(fn) == [t |-> "obj", o |-> fn]
Raw == [t |-> "raw"]

EmptyObject == [k \in {} |-> Undefined]

\* an object from a set of <<key, value>> pairs; a pair whose value is Undefined is an absent key
MkObj(pairs) ==
    LET present == {p \in pairs : p[2] # Undefined}
    IN  [k \in {p[1] : p \in present} |-> (CHOOSE p \in present : p[1] = k)[2]]

isDouble(val) == val.t = "num"
isArray(val) == val.t = "arr"
isObject(val) == val.t = "obj"
isNull(val) == val.t = "null"
toArray(val) == IF val.t = "arr" THEN val.a ELSE <<>>
toObject(val) == IF val.t = "obj" THEN val.o ELSE EmptyObject
toString(val) == IF val.t = "str" THEN val.s ELSE ""
toDouble(val) == IF val.t = "num" THEN val.v ELSE 0
toReal(val) == IF val.t = "num" THEN val.v ELSE 0
contains(obj, key) == key \in DOMAIN obj
value(obj, key) == IF key \in DOMAIN obj THEN obj[key] ELSE Undefined

\* QJsonDocument::fromJson: a document only for a root that is an object or an array
fromJson(body) == IF body.t \in {"obj", "arr"} THEN body ELSE Null
\* QJsonDocument::object: empty when the root is not an object
object(doc) == IF doc.t = "obj" THEN doc.o ELSE EmptyObject

----------------------------------------------------------------------------
(* Sequence helpers                                                        *)

RECURSIVE Reverse(_)
Reverse(s) == IF s = <<>> THEN <<>> ELSE Append(Reverse(Tail(s)), Head(s))

Last(s) == s[Len(s)]
Front(s) == SubSeq(s, 1, Len(s) - 1)

RECURSIVE SeqsUpTo(_, _)
\* the sequences over S of length at most n
SeqsUpTo(S, n) ==
    IF n = 0 THEN {<<>>}
    ELSE LET shorter == SeqsUpTo(S, n - 1)
         IN  shorter \cup {Append(s, e) : s \in shorter, e \in S}

RECURSIVE Flatten(_)
Flatten(ss) == IF ss = <<>> THEN <<>> ELSE Head(ss) \o Flatten(Tail(ss))

RECURSIVE MinOf(_)
MinOf(s) == IF Len(s) = 1 THEN s[1]
            ELSE LET m == MinOf(Tail(s)) IN IF s[1] <= m THEN s[1] ELSE m

RECURSIVE MaxOf(_)
MaxOf(s) == IF Len(s) = 1 THEN s[1]
            ELSE LET m == MaxOf(Tail(s)) IN IF s[1] >= m THEN s[1] ELSE m

----------------------------------------------------------------------------
(* mergeCoordinates (main.cpp 43-60)                                       *)

\* lines 45-48: one point (x, 0) per x
initialPoints(xs) == [i \in 1..Len(xs) |-> <<xs[i], 0>>]

reverseCopyKeepOrder(ys) == ys

\* lines 50-51: y is a copy of yPoints, reversed
reverseCopy(ys) == Reverse(ys)

\* QPointF::setY on the i-th point
setY(pts, i, val) == [pts EXCEPT ![i] = <<pts[i][1], val>>]

RECURSIVE fillFrom(_, _, _)
\* lines 53-57: each point in turn takes the last element of yy while yy is not empty
fillFrom(pts, i, yy) ==
    IF i > Len(pts) THEN pts
    ELSE IF yy # <<>> THEN fillFrom(setY(pts, i, Last(yy)), i + 1, Front(yy))
    ELSE fillFrom(pts, i + 1, yy)

mergeCoordinates(xs, ys) == fillFrom(initialPoints(xs), 1, reverseCopy(ys))

----------------------------------------------------------------------------
(* POST /charts/line: the checks of the handler (main.cpp 124-274)         *)

NoError == ""
MsgInvalid == "Invalid data sent. Please send a valid JSON-Object."
MsgMissing(key) ==
    CASE key = "X_Start" -> "Invalid data sent. Missing JSON-Key 'X_Start'. Please send a valid JSON-Object."
      [] key = "X_End" -> "Invalid data sent. Missing JSON-Key 'X_End'. Please send a valid JSON-Object."
      [] key = "Points" -> "Invalid data sent. Missing JSON-Key 'Points'. Please send a valid JSON-Object."
MsgXStart == "Invalid data sent. JSON-Key 'X_Start' is not a double value. Please send a valid JSON-Object."
MsgXEnd == "Invalid data sent. JSON-Key 'X_End' is not a double value. Please send a valid JSON-Object."
MsgPointsNotArray == "Invalid data sent. JSON-Key 'Points' is not an array. Please send a valid JSON-Object."
MsgPointsEmpty == "Invalid data sent. JSON-Key 'Points' is empty. Please send a valid JSON-Object."
MsgPointsMany == "Invalid data sent. JSON-Key 'Points' contains more than one array. Please send a valid JSON-Object."
MsgNoSubobjects == "Invalid data sent. Array in JSON-Key 'Points' contains no JSON subobjects. Please send a valid JSON-Object."
MsgNotObject == "Invalid data sent. A sub-object in array 'Y_Points' is not a proper JSON-object. Please send a valid JSON-Object."
MsgCaption == "Invalid data sent. A caption of one sub-object in array 'Points' is empty. Please send a valid JSON-Object."
MsgXPoints == "Invalid data sent. JSON-Key 'X_Points' of one sub-object in array 'Points' is not an array. Please send a valid JSON-Object."
MsgYPoints == "Invalid data sent. JSON-Key 'Y_Points' of one sub-object in array 'Points' is not an array. Please send a valid JSON-Object."
MsgYPoint == "Invalid data sent. A point in JSON-Key 'Y_Points' in one sub-object of 'Points' is not a double value. Please send a valid JSON-Object."
MsgExpire == "The provided url will expire in 24 hours."

\* lines 150-162: the first required key that is missing
RequiredKeys == <<"X_Start", "X_End", "Points">>
missingKey(obj) ==
    IF \E i \in 1..Len(RequiredKeys) : ~contains(obj, RequiredKeys[i])
    THEN RequiredKeys[CHOOSE i \in 1..Len(RequiredKeys) :
             /\ ~contains(obj, RequiredKeys[i])
             /\ \A j \in 1..(i - 1) : contains(obj, RequiredKeys[j])]
    ELSE ""

\* lines 225-273: the checks of one element of the nested array
seriesError(arrayValue) ==
    LET arrayObject == toObject(arrayValue) IN
    IF ~isObject(arrayValue) THEN MsgNotObject
    ELSE IF toString(value(arrayObject, "Caption")) = "" THEN MsgCaption
    ELSE IF ~isArray(value(arrayObject, "X_Points")) THEN MsgXPoints
    ELSE IF ~isArray(value(arrayObject, "Y_Points")) THEN MsgYPoints
    ELSE IF \E i \in DOMAIN toArray(value(arrayObject, "Y_Points")) :
                ~isDouble(toArray(value(arrayObject, "Y_Points"))[i]) THEN MsgYPoint
    ELSE NoError

RECURSIVE nestedError(_)
\* lines 223-274: the loop over the nested array returns at the first failing element
nestedError(elements) ==
    IF elements = <<>> THEN NoError
    ELSE IF seriesError(Head(elements)) # NoError THEN seriesError(Head(elements))
    ELSE nestedError(Tail(elements))

\* lines 196-221: the checks of the array under 'Points'
pointsError(jsonArray) ==
    IF jsonArray = <<>> THEN MsgPointsEmpty
    ELSE IF Len(jsonArray) > 1 THEN MsgPointsMany
    ELSE IF isNull(jsonArray[1]) THEN MsgNoSubobjects
    ELSE NoError

validationMessagePointsFirst(body) ==
    LET jsonDocument == fromJson(body)
        jsonObject == object(jsonDocument)
        jsonArray == toArray(value(jsonObject, "Points"))
    IN  IF isNull(jsonDocument) THEN MsgInvalid
        ELSE IF DOMAIN jsonObject = {} THEN MsgInvalid
        ELSE IF missingKey(jsonObject) # "" THEN MsgMissing(missingKey(jsonObject))
        ELSE IF ~isArray(value(jsonObject, "Points")) THEN MsgPointsNotArray
        ELSE IF ~isDouble(value(jsonObject, "X_Start")) THEN MsgXStart
        ELSE IF ~isDouble(value(jsonObject, "X_End")) THEN MsgXEnd
        ELSE IF pointsError(jsonArray) # NoError THEN pointsError(jsonArray)
        ELSE nestedError(toArray(jsonArray[1]))

\* lines 124-274: the Message of the first failing check, NoError when every check passes
validationMessage(body) ==
    LET jsonDocument == fromJson(body)
        jsonObject == object(jsonDocument)
        jsonArray == toArray(value(jsonObject, "Points"))
    IN  IF isNull(jsonDocument) THEN MsgInvalid
        ELSE IF DOMAIN jsonObject = {} THEN MsgInvalid
        ELSE IF missingKey(jsonObject) # "" THEN MsgMissing(missingKey(jsonObject))
        ELSE IF ~isDouble(value(jsonObject, "X_Start")) THEN MsgXStart
        ELSE IF ~isDouble(value(jsonObject, "X_End")) THEN MsgXEnd
        ELSE IF ~isArray(value(jsonObject, "Points")) THEN MsgPointsNotArray
        ELSE IF pointsError(jsonArray) # NoError THEN pointsError(jsonArray)
        ELSE nestedError(toArray(jsonArray[1]))

----------------------------------------------------------------------------
(* POST /charts/line: series construction and axis ranges (main.cpp 276-344) *)

\* a series object of the request
SeriesObj(caption, xArr, yArr) ==
    Obj(MkObj({<<"Caption", caption>>, <<"X_Points", xArr>>, <<"Y_Points", yArr>>}))

\* lines 62-70
convertFromArrayToRealsVector(jsonArray) == [i \in DOMAIN jsonArray |-> toReal(jsonArray[i])]

\* lines 276-288: the objects of every nested array, in order
pointsObjects(jsonArray) ==
    Flatten([i \in DOMAIN jsonArray |->
                [j \in DOMAIN toArray(jsonArray[i]) |-> toObject(toArray(jsonArray[i])[j])]])

insertKeepFirst(map, key, val) ==
    [c \in DOMAIN map \cup {key} |-> IF c \in DOMAIN map THEN map[c] ELSE val]

\* QMap::insert: the value of an existing key is replaced
insert(map, key, val) ==
    [c \in DOMAIN map \cup {key} |-> IF c = key THEN val ELSE map[c]]

RECURSIVE captionToPointsFrom(_, _)
captionToPointsFrom(map, objs) ==
    IF objs = <<>> THEN map
    ELSE captionToPointsFrom(
             insert(map,
                    toString(value(Head(objs), "Caption")),
                    <<convertFromArrayToRealsVector(toArray(value(Head(objs), "X_Points"))),
                      convertFromArrayToRealsVector(toArray(value(Head(objs), "Y_Points")))>>),
             Tail(objs))

\* lines 290-306: caption -> <<xPoints, yPoints>>
captionToPoints(objs) == captionToPointsFrom(EmptyObject, objs)

\* QMap::keys: the keys in ascending order; the captions of the model in that order
SortedCaptions == <<"A", "B", "C">>
keys(map) == SelectSeq(SortedCaptions, LAMBDA c : c \in DOMAIN map)

\* lines 320-323 and 334-337
allYPoints(map) == Flatten([i \in DOMAIN keys(map) |-> map[keys(map)[i]][2]])

\* lines 318-330
yStart(map) == IF Len(allYPoints(map)) > 1 THEN MinOf(allYPoints(map)) ELSE 0

\* lines 332-344
yEnd(map) == IF Len(allYPoints(map)) > 1 THEN MaxOf(allYPoints(map)) ELSE 0

\* lines 351-374: what the handler gives the chart: the two axis ranges and one line
\* series of merged coordinates per caption
chartOf(body) ==
    LET jsonObject == object(fromJson(body))
        map == captionToPoints(pointsObjects(toArray(value(jsonObject, "Points"))))
    IN  [xRange |-> <<toDouble(value(jsonObject, "X_Start")), toDouble(value(jsonObject, "X_End"))>>,
         yRange |-> <<yStart(map), yEnd(map)>>,
         series |-> [c \in DOMAIN map |-> mergeCoordinates(map[c][1], map[c][2])]]

NoChart == [xRange |-> <<0, 0>>, yRange |-> <<0, 0>>, series |-> EmptyObject]

----------------------------------------------------------------------------
(* UUIDs, file names, base64                                               *)

\* A retrieval argument: the canonical spelling of UUID val ("plain"), the same in
\* braces ("braced"), or a string that is no UUID ("garbage"). Value 0 is the nil
\* UUID 00000000-0000-0000-0000-000000000000.
NilUuid == 0
UuidString(form, val) == [form |-> form, val |-> val]
Garbage == UuidString("garbage", NilUuid)
NoArg == UuidString("none", NilUuid)

fromStringPlainOnly(arg) == IF arg.form = "plain" THEN arg.val ELSE NilUuid

\* QUuid::fromString: the null UUID for a string that is no UUID
fromString(arg) == IF arg.form \in {"plain", "braced"} THEN arg.val ELSE NilUuid

\* QUuid::isNull
isNullUuid(u) == u = NilUuid

\* QUuid::toString(QUuid::WithoutBraces)
toStringWithoutBraces(u) == UuidString("plain", u)

\* imagepath + QDir::separator() + <uuid string> + ".png"
imageFile(uuidString) == <<"imagepath", uuidString, ".png">>

Base64Alphabet ==
    <<"A", "B", "C", "D", "E", "F", "G", "H", "I", "J", "K", "L", "M", "N", "O", "P",
      "Q", "R", "S", "T", "U", "V", "W", "X", "Y", "Z", "a", "b", "c", "d", "e", "f",
      "g", "h", "i", "j", "k", "l", "m", "n", "o", "p", "q", "r", "s", "t", "u", "v",
      "w", "x", "y", "z", "0", "1", "2", "3", "4", "5", "6", "7", "8", "9", "+", "/">>
Sextet(n) == Base64Alphabet[n + 1]

RECURSIVE toBase64(_)
\* QByteArray::toBase64: four characters per three bytes, the last group padded with '='
toBase64(bytes) ==
    IF Len(bytes) = 0 THEN <<>>
    ELSE IF Len(bytes) = 1 THEN
        <<Sextet(bytes[1] \div 4), Sextet((bytes[1] % 4) * 16), "=", "=">>
    ELSE IF Len(bytes) = 2 THEN
        <<Sextet(bytes[1] \div 4), Sextet((bytes[1] % 4) * 16 + bytes[2] \div 16),
          Sextet((bytes[2] % 16) * 4), "=">>
    ELSE
        <<Sextet(bytes[1] \div 4), Sextet((bytes[1] % 4) * 16 + bytes[2] \div 16),
          Sextet((bytes[2] % 16) * 4 + bytes[3] \div 64), Sextet(bytes[3] % 64)>>
        \o toBase64(SubSeq(bytes, 4, Len(bytes)))

\* the PNG encodings chartWidget->grab() can save: the line colours are random
Images == {<<137, 80>>, <<137, 80, 78>>}

----------------------------------------------------------------------------
(* Routing (main.cpp 119-120, 397-406, 422-431)                            *)

Path(prefix, arg) == [prefix |-> prefix, arg |-> arg]
LinePath == Path(<<"charts", "line">>, NoArg)
ResultPath(arg) == Path(<<"charts", "line", "result">>, arg)

\* the method mask of lines 397-405 and of lines 422-430
MaskedMethods == {"Get", "Put", "Head", "Trace", "Patch", "Delete", "Options", "Connect",
                  "Unknown"}

\* the handler QHttpServer gives a request to: "post" (lines 119-395), "notImplemented"
\* (lines 397-420), "fetch" (lines 422-480), "missing" when no rule matches
routeOf(method, path) ==
    IF path = LinePath /\ method = "Post" THEN "post"
    ELSE IF path = LinePath /\ method \in MaskedMethods THEN "notImplemented"
    ELSE IF /\ path.prefix = <<"charts", "line", "result">>
            /\ path.arg # NoArg
            /\ method \in MaskedMethods THEN "fetch"
    ELSE "missing"

----------------------------------------------------------------------------
(* Responses                                                               *)

MsgNotImplemented == "The used HTTP-Method is not implemented."
MsgNotUuid == "The submitted argument is not an UUID. Please send a valid UUID."
MsgNotLinked == "The submitted UUID is either not linked to any chart or already expired. Please contact our support via our e-mail %0 ."
MsgInternal == "An internal error (errorcode 100) has occured. Please contact our support via our e-mail %0 ."
MsgData == "The 'Data' entry of this JSON-object contains the base64-encoded png-file data of your chart-plot."

Response(status, json) == [status |-> status, json |-> json]
NoResponse == Response(0, EmptyObject)
MessageResponse(msg) == Response(200, [Message |-> msg])
\* QHttpServer's answer when no rule matches the request
MissingHandlerResponse == Response(404, EmptyObject)

\* line 390
linkOf(uuidString) ==
    [base |-> "http://127.0.0.1:50001", path |-> Path(<<"charts", "line", "img">>, uuidString)]

\* lines 386-393
LinkResponse(uuidString) ==
    Response(200, [Link |-> linkOf(uuidString), Message |-> MsgExpire])

\* lines 469-476
DataResponse(bytes) == Response(200, [Message |-> MsgData, Data |-> toBase64(bytes)])

----------------------------------------------------------------------------
(* Tasks: one per request, run by QtConcurrent::run on the worker pool     *)

\* A task: the request (method, path, body), the handler it was routed to, its position
\* pc, the locals uuid and image of the POST handler, the chart it gave the renderer,
\* the file system operations it performed (ops), the bytes it read, and its response.
\* done and inFlight are history: the tasks that had answered when the request arrived,
\* and whether a read took place between the open and the end of a write of the file.
Task(method, path, body, done) ==
    [method |-> method, path |-> path, body |-> body, route |-> routeOf(method, path),
     pc |-> IF routeOf(method, path) = "missing" THEN "done" ELSE "run",
     uuid |-> NilUuid, image |-> <<>>, chart |-> NoChart, ops |-> {}, read |-> <<>>,
     done |-> done, inFlight |-> FALSE,
     resp |-> IF routeOf(method, path) = "missing" THEN MissingHandlerResponse
              ELSE NoResponse]

TaskIds == DOMAIN tasks
Answered == {i \in TaskIds : tasks[i].pc = "done"}

Finish(i, resp) == [tasks EXCEPT ![i].pc = "done", ![i].resp = resp]

\* a request arrives and is routed
Receive(limit, method, path, body) ==
    /\ Len(tasks) < limit
    /\ tasks' = Append(tasks, Task(method, path, body, Answered))
    /\ UNCHANGED <<files, issued, mergeVars>>

createUuidRepeating == 1..MaxUuid

\* QUuid::createUuid: a random version-4 UUID, never nil; the model draws a value
\* that was not drawn before
createUuid == (1..MaxUuid) \ issued

\* lines 124-382: the checks, then the chart, the UUID and the rendered image
PostRun(i) ==
    /\ tasks[i].route = "post" /\ tasks[i].pc = "run"
    /\ IF validationMessage(tasks[i].body) # NoError
       THEN /\ tasks' = Finish(i, MessageResponse(validationMessage(tasks[i].body)))
            /\ UNCHANGED <<files, issued, mergeVars>>
       ELSE \E u \in createUuid, img \in Images :
            /\ tasks' = [tasks EXCEPT ![i].pc = "save", ![i].uuid = u, ![i].image = img,
                                      ![i].chart = chartOf(tasks[i].body)]
            /\ issued' = issued \cup {u}
            /\ UNCHANGED files
    /\ UNCHANGED mergeVars

\* line 384, QPixmap::save: the file is opened for writing (created or truncated), or
\* the open fails; the result of save is not looked at (lines 386-393)
SaveOpen(i) ==
    /\ tasks[i].route = "post" /\ tasks[i].pc = "save"
    /\ LET name == imageFile(toStringWithoutBraces(tasks[i].uuid)) IN
       \/ /\ files' = [f \in DOMAIN files \cup {name} |-> IF f = name THEN <<>> ELSE files[f]]
          /\ tasks' = [tasks EXCEPT ![i].pc = "write", ![i].ops = @ \cup {"write"}]
       \/ /\ tasks' = Finish(i, LinkResponse(toStringWithoutBraces(tasks[i].uuid)))
          /\ UNCHANGED files
    /\ UNCHANGED <<issued, mergeVars>>

\* line 384, QPixmap::save: the encoded image is written; a failing write leaves the
\* bytes written so far; then lines 386-393
SaveWrite(i) ==
    /\ tasks[i].route = "post" /\ tasks[i].pc = "write"
    /\ LET name == imageFile(toStringWithoutBraces(tasks[i].uuid)) IN
       \E k \in 0..Len(tasks[i].image) :
          files' = [files EXCEPT ![name] = SubSeq(tasks[i].image, 1, k)]
    /\ tasks' = Finish(i, LinkResponse(toStringWithoutBraces(tasks[i].uuid)))
    /\ UNCHANGED <<issued, mergeVars>>

\* lines 410-419
NotImplemented(i) ==
    /\ tasks[i].route = "notImplemented" /\ tasks[i].pc = "run"
    /\ tasks' = Finish(i, MessageResponse(MsgNotImplemented))
    /\ UNCHANGED <<files, issued, mergeVars>>

\* the tasks whose write of file name has begun and not ended
Writing(name) ==
    {j \in TaskIds : /\ tasks[j].pc = "write"
                     /\ imageFile(toStringWithoutBraces(tasks[j].uuid)) = name}

\* lines 436-454: the argument is parsed, then the file is looked for
FetchLookup(i) ==
    /\ tasks[i].route = "fetch" /\ tasks[i].pc = "run"
    /\ LET uuid == fromString(tasks[i].path.arg)
           name == imageFile(toStringWithoutBraces(uuid))
       IN  IF isNullUuid(uuid)
           THEN tasks' = Finish(i, MessageResponse(MsgNotUuid))
           ELSE IF name \notin DOMAIN files
           THEN tasks' = [Finish(i, MessageResponse(MsgNotLinked))
                             EXCEPT ![i].uuid = uuid, ![i].ops = @ \cup {"exists"}]
           ELSE tasks' = [tasks EXCEPT ![i].pc = "open", ![i].uuid = uuid,
                                       ![i].ops = @ \cup {"exists"}]
    /\ UNCHANGED <<files, issued, mergeVars>>

\* lines 456-476: the file is opened and read whole, or the open fails
FetchRead(i) ==
    /\ tasks[i].route = "fetch" /\ tasks[i].pc = "open"
    /\ LET name == imageFile(toStringWithoutBraces(tasks[i].uuid)) IN
       \/ tasks' = [Finish(i, MessageResponse(MsgInternal)) EXCEPT ![i].ops = @ \cup {"open"}]
       \/ tasks' = [Finish(i, DataResponse(files[name]))
                       EXCEPT ![i].ops = @ \cup {"open", "read"},
                              ![i].read = files[name],
                              ![i].inFlight = Writing(name) # {}]
    /\ UNCHANGED <<files, issued, mergeVars>>

----------------------------------------------------------------------------
(* The requests of the model                                               *)

Captions == {"A", "B"}
XArray == Arr(<<Num(0), Num(1)>>)
YArrays == {Arr(<<>>), Arr(<<Num(2)>>), Arr(<<Num(-1), Num(2)>>),
            Arr(<<Num(3), Num(-2), Num(1)>>)}

\* series objects that pass every check of the handler
ValidSeries == {SeriesObj(Str(c), XArray, ya) : c \in Captions, ya \in YArrays}

\* elements of the nested array that fail a check: no object, empty or absent Caption,
\* X_Points or Y_Points no array, a Y_Points element that is no number
InvalidSeries ==
    {Str("s"),
     SeriesObj(Str(""), XArray, Arr(<<Num(2)>>)),
     SeriesObj(Undefined, Undefined, Undefined),
     SeriesObj(Str("A"), Str("s"), Arr(<<Num(2)>>)),
     SeriesObj(Str("A"), XArray, Str("s")),
     SeriesObj(Str("B"), XArray, Arr(<<Num(2), Str("s")>>))}

NestedArrays == {Arr(s) : s \in SeqsUpTo(ValidSeries \cup InvalidSeries, MaxSeries)}

OneSeries == Arr(<<SeriesObj(Str("A"), XArray, Arr(<<Num(-1), Num(2)>>))>>)
BadSeries == Arr(<<SeriesObj(Str(""), XArray, Arr(<<Str("s")>>))>>)

\* values of 'Points' that reach few checks each
FewPoints ==
    {Undefined, Str("s"), Arr(<<>>), Arr(<<Null>>), Arr(<<Num(5)>>), Arr(<<Obj(EmptyObject)>>),
     Arr(<<OneSeries>>), Arr(<<BadSeries>>), Arr(<<OneSeries, OneSeries>>),
     Arr(<<Num(5), BadSeries>>), Arr(<<Null, OneSeries>>)}

ManyPoints == FewPoints \cup {Arr(<<n>>) : n \in NestedArrays}

Body(xs, xe, pts) == Obj(MkObj({<<"X_Start", xs>>, <<"X_End", xe>>, <<"Points", pts>>}))

\* bodies that are no JSON document, or whose root is no object or an empty one
RootBodies == {Raw, Num(7), Arr(<<Num(7)>>), Obj(EmptyObject)}

\* the bodies of the specification of one POST request
Bodies ==
    RootBodies
    \cup {Body(Num(0), Num(3), pts) : pts \in ManyPoints}
    \cup {Body(xs, xe, pts) : xs \in {Undefined, Num(0), Str("s")},
                              xe \in {Undefined, Num(3), Str("s")},
                              pts \in FewPoints}

\* the bodies of the specification of two POST requests
RuleBodies ==
    {Raw, Obj(EmptyObject), Body(Num(0), Undefined, Str("s")), Body(Str("s"), Undefined, Arr(<<>>))}
    \cup {Body(xs, Num(3), pts) : xs \in {Num(0), Str("s")},
                                  pts \in {Str("s"), Arr(<<>>), Arr(<<OneSeries, OneSeries>>),
                                           Arr(<<BadSeries>>)}}
    \cup {Body(Num(0), Num(3), Arr(<<Num(5)>>))}

\* the requests of the server specification
ServerBodies == {Body(Num(0), Num(3), Arr(<<OneSeries>>)), Body(Num(0), Num(3), Arr(<<>>))}
ServerMethods == {"Post", "Get", "Put"}
Args == {Garbage} \cup {UuidString(f, v) : f \in {"plain", "braced"}, v \in 0..MaxUuid}

\* the paths of the Links the server has returned
LinkPaths == {tasks[i].resp.json.Link.path : i \in {j \in Answered : "Link" \in DOMAIN tasks[j].resp.json}}

----------------------------------------------------------------------------------------------------------------------------------------
(* mergeCoordinates step by step (main.cpp 43-60)                          *)

\* lines 45-48
MergeInit ==
    /\ mpc = "entry"
    /\ points' = initialPoints(xPoints)
    /\ mpc' = "copy"
    /\ UNCHANGED <<xPoints, yPoints, y, idx, serverVars>>

\* lines 50-51
MergeCopy ==
    /\ mpc = "copy"
    /\ y' = reverseCopy(yPoints)
    /\ idx' = 1
    /\ mpc' = "loop"
    /\ UNCHANGED <<xPoints, yPoints, points, serverVars>>

\* lines 53-57, one iteration
MergeStep ==
    /\ mpc = "loop" /\ idx <= Len(points)
    /\ IF y # <<>>
       THEN points' = setY(points, idx, Last(y)) /\ y' = Front(y)
       ELSE UNCHANGED <<points, y>>
    /\ idx' = idx + 1
    /\ UNCHANGED <<xPoints, yPoints, mpc, serverVars>>

\* line 59
MergeReturn ==
    /\ mpc = "loop" /\ idx > Len(points)
    /\ mpc' = "done"
    /\ UNCHANGED <<xPoints, yPoints, points, y, idx, serverVars>>

----------------------------------------------------------------------------
(* Specifications                                                          *)

MergeIdle ==
    /\ xPoints = <<>> /\ yPoints = <<>> /\ points = <<>> /\ y = <<>> /\ idx = 0
    /\ mpc = "idle"

ServerIdle == tasks = <<>> /\ files = EmptyObject /\ issued = {}

\* The server: requests of any kind arrive while the tasks of earlier ones run.
Init == ServerIdle /\ MergeIdle

Next ==
    \/ \E b \in ServerBodies : Receive(MaxTasks, "Post", LinePath, b)
    \/ \E m \in ServerMethods \ {"Post"} : Receive(MaxTasks, m, LinePath, Raw)
    \/ \E m \in ServerMethods, a \in Args : Receive(MaxTasks, m, ResultPath(a), Raw)
    \/ \E p \in LinkPaths : Receive(MaxTasks, "Get", p, Raw)
    \/ \E i \in TaskIds : PostRun(i)
    \/ \E i \in TaskIds : SaveOpen(i)
    \/ \E i \in TaskIds : SaveWrite(i)
    \/ \E i \in TaskIds : NotImplemented(i)
    \/ \E i \in TaskIds : FetchLookup(i)
    \/ \E i \in TaskIds : FetchRead(i)

Spec == Init /\ [][Next]_vars

\* One POST /charts/line request with any body of Bodies.
NextPost ==
    \/ \E b \in Bodies : Receive(1, "Post", LinePath, b)
    \/ \E i \in TaskIds : PostRun(i)
    \/ \E i \in TaskIds : SaveOpen(i)
    \/ \E i \in TaskIds : SaveWrite(i)

SpecPost == Init /\ [][NextPost]_vars

\* POST /charts/line requests with the bodies of RuleBodies.
NextValidate ==
    \/ \E b \in RuleBodies : Receive(MaxTasks, "Post", LinePath, b)
    \/ \E i \in TaskIds : PostRun(i)
    \/ \E i \in TaskIds : SaveOpen(i)
    \/ \E i \in TaskIds : SaveWrite(i)

SpecValidate == Init /\ [][NextValidate]_vars

\* One call of mergeCoordinates with any arguments of the bounded sets.
XNumbers == {0, 1}
MergeYNumbers == {1, 2}

InitMerge ==
    /\ ServerIdle
    /\ xPoints \in SeqsUpTo(XNumbers, MaxLen)
    /\ yPoints \in SeqsUpTo(MergeYNumbers, MaxLen)
    /\ points = <<>> /\ y = <<>> /\ idx = 0
    /\ mpc = "entry"

NextMerge == MergeInit \/ MergeCopy \/ MergeStep \/ MergeReturn

SpecMerge == InitMerge /\ [][NextMerge]_vars

----------------------------------------------------------------------------
(* Claims                                                                  *)

\* the merge policy, of a result pts for arguments xs and ys
IsMergeOf(pts, xs, ys) ==
    /\ Len(pts) = Len(xs)
    /\ \A i \in 1..Len(xs) : pts[i][1] = xs[i]
    /\ \A i \in 1..Len(xs) : pts[i][2] = IF i <= Len(ys) THEN ys[i] ELSE 0

\* C7: when mergeCoordinates returns, it returns one coordinate per element of
\* xPoints, with the x values of xPoints in order, the i-th y being yPoints[i] (in the
\* original order) for i up to the shorter length and 0 beyond the end of yPoints;
\* Y values beyond the end of xPoints are dropped; no step changes the caller's
\* yPoints.
C7_MergePolicy ==
    /\ [](mpc = "done" =>
            /\ IsMergeOf(points, xPoints, yPoints)
            /\ mergeCoordinates(xPoints, yPoints) = points)
    /\ [][yPoints' = yPoints /\ xPoints' = xPoints]_vars

\* C7 witness: a call has returned whose yPoints is shorter than xPoints and holds
\* two different values
C7_Witness ==
    /\ mpc = "done"
    /\ Len(xPoints) = 3 /\ Len(yPoints) = 2 /\ yPoints[1] # yPoints[2]
    /\ points[3][2] = 0

\* C7 second witness: a call has returned whose yPoints is longer than xPoints
C7_WitnessLongerY == mpc = "done" /\ Len(yPoints) > Len(xPoints) /\ Len(xPoints) > 0

----------------------------------------------------------------------------
(* The rules of the request validator, read off a body: rule r of 1..7     *)
(* judged on the body alone, a part that is absent counting as a value of  *)
(* no type. Rule 6 is read as: 'Points' holds exactly one element, and it  *)
(* is an array; rule 7 speaks of the elements of that one nested array.    *)

Field(b, k) == value(toObject(b), k)

NestedOf(b) ==
    LET pts == toArray(Field(b, "Points"))
    IN  IF Len(pts) = 1 /\ pts[1].t = "arr" THEN pts[1].a ELSE <<>>

BadSeriesElement(e) ==
    \/ e.t # "obj"
    \/ value(toObject(e), "Caption").t # "str"
    \/ value(toObject(e), "Caption") = Str("")
    \/ value(toObject(e), "X_Points").t # "arr"
    \/ value(toObject(e), "Y_Points").t # "arr"
    \/ \E k \in DOMAIN toArray(value(toObject(e), "Y_Points")) :
           toArray(value(toObject(e), "Y_Points"))[k].t # "num"

Violates(b, r) ==
    CASE r = 1 -> b.t \notin {"obj", "arr"}
      [] r = 2 -> b.t # "obj" \/ DOMAIN toObject(b) = {}
      [] r = 3 -> \E k \in {"X_Start", "X_End", "Points"} : k \notin DOMAIN toObject(b)
      [] r = 4 -> Field(b, "X_Start").t # "num" \/ Field(b, "X_End").t # "num"
      [] r = 5 -> Field(b, "Points").t # "arr"
      [] r = 6 -> LET pts == toArray(Field(b, "Points"))
                  IN  ~(Len(pts) = 1 /\ pts[1].t = "arr")
      [] r = 7 -> \E k \in DOMAIN NestedOf(b) : BadSeriesElement(NestedOf(b)[k])

Rules == 1..7
Violated(b) == {r \in Rules : Violates(b, r)}
\* the earliest violated rule, 0 when the body violates none
FirstViolated(b) ==
    IF Violated(b) = {} THEN 0 ELSE CHOOSE r \in Violated(b) : \A q \in Violated(b) : r <= q

\* the Message texts the handler has for each rule (lines 132 and 145, 158, 169 and
\* 178, 187, 201 to 219, 230 to 270)
RuleMessages(r) ==
    CASE r = 1 -> {MsgInvalid}
      [] r = 2 -> {MsgInvalid}
      [] r = 3 -> {MsgMissing("X_Start"), MsgMissing("X_End"), MsgMissing("Points")}
      [] r = 4 -> {MsgXStart, MsgXEnd}
      [] r = 5 -> {MsgPointsNotArray}
      [] r = 6 -> {MsgPointsEmpty, MsgPointsMany, MsgNoSubobjects}
      [] r = 7 -> {MsgNotObject, MsgCaption, MsgXPoints, MsgYPoints, MsgYPoint}

PostTasks == {i \in TaskIds : tasks[i].route = "post"}
AnsweredPosts == PostTasks \cap Answered
MessageOnly(i) == tasks[i].resp.status = 200 /\ DOMAIN tasks[i].resp.json = {"Message"}
HasLink(i) == "Link" \in DOMAIN tasks[i].resp.json
HasData(i) == "Data" \in DOMAIN tasks[i].resp.json

\* the POST tasks whose body passed every check of the handler
Validated == {i \in PostTasks : tasks[i].pc \in {"save", "write"} \/ (tasks[i].pc = "done" /\ HasLink(i))}

\* C2 (as claimed): a POST whose body violates a rule of the validator is answered by
\* a Message alone, and writes no file.
C2_FailFast ==
    \A i \in AnsweredPosts :
        Violated(tasks[i].body) # {} =>
            /\ MessageOnly(i)
            /\ "write" \notin tasks[i].ops
            /\ imageFile(toStringWithoutBraces(tasks[i].uuid)) \notin DOMAIN files

\* the message is that of the earliest violated rule, for a body that violates several
EarliestRuleReported ==
    \A i \in AnsweredPosts :
        Cardinality(Violated(tasks[i].body)) >= 2 =>
            /\ MessageOnly(i)
            /\ tasks[i].resp.json.Message \in RuleMessages(FirstViolated(tasks[i].body))

\* two error answers for bodies whose earliest violated rules differ have different
\* texts, but for the pairs of rules in shared
DistinctTexts(shared) ==
    \A i, j \in AnsweredPosts :
        (/\ MessageOnly(i) /\ MessageOnly(j)
         /\ Violated(tasks[i].body) # {} /\ Violated(tasks[j].body) # {}
         /\ FirstViolated(tasks[i].body) # FirstViolated(tasks[j].body)
         /\ {FirstViolated(tasks[i].body), FirstViolated(tasks[j].body)} \notin shared)
        => tasks[i].resp.json.Message # tasks[j].resp.json.Message

\* C3 (as claimed): the checks run in the order of the rules, a body that violates
\* several rules gets the Message of the earliest one, and the texts of any two
\* different rules differ.
C3_OrderAndAllDistinct == EarliestRuleReported /\ DistinctTexts({})

\* C3 (amended): the checks run in the order of the rules, a body that violates several
\* rules gets the Message of the earliest one, and the texts of two different rules
\* differ, except that rules 1 and 2 share one text.
C3_OrderAndDistinctButRootChecks == EarliestRuleReported /\ DistinctTexts({{1, 2}})

\* C3 witness: two answered requests, one whose body is no JSON and one whose root is
\* an empty object, with the same Message; and the first violates several rules
C3_Witness ==
    \E i, j \in AnsweredPosts :
        /\ FirstViolated(tasks[i].body) = 1 /\ FirstViolated(tasks[j].body) = 2
        /\ Cardinality(Violated(tasks[i].body)) >= 2
        /\ MessageOnly(i) /\ MessageOnly(j)
        /\ tasks[i].resp.json.Message = tasks[j].resp.json.Message

----------------------------------------------------------------------------
(* The Y range                                                             *)

CaptionAt(b, i) == toString(value(toObject(NestedOf(b)[i]), "Caption"))
YPointsAt(b, i) == toArray(value(toObject(NestedOf(b)[i]), "Y_Points"))

\* the series of the nested array that no later series with the same Caption replaces
LastOfCaption(b) ==
    {i \in DOMAIN NestedOf(b) :
        \A j \in DOMAIN NestedOf(b) : j > i => CaptionAt(b, j) # CaptionAt(b, i)}

SetMin(S) == CHOOSE m \in S : \A n \in S : m <= n
SetMax(S) == CHOOSE m \in S : \A n \in S : m >= n

\* (min, max) of the Y values of the series in I, (0, 0) when there are fewer than two
RangeOver(b, I) ==
    LET at == UNION {{<<i, k>> : k \in DOMAIN YPointsAt(b, i)} : i \in I}
        V == {YPointsAt(b, p[1])[p[2]].v : p \in at}
    IN  IF Cardinality(at) >= 2 THEN <<SetMin(V), SetMax(V)>> ELSE <<0, 0>>

\* C8 (as claimed): the Y range given to the renderer is (min, max) over the Y_Points
\* of every series object of the nested array, series that share a Caption included,
\* and (0, 0) when these are fewer than two values.
C8_RangeOverEverySeries ==
    \A i \in Validated :
        tasks[i].chart.yRange = RangeOver(tasks[i].body, DOMAIN NestedOf(tasks[i].body))

\* C8 (amended): the Y range given to the renderer is (min, max) over the Y_Points of
\* the series objects kept in the caption map, which for each Caption is the last
\* series of the nested array with that Caption, and (0, 0) when these are fewer than
\* two values.
C8_RangeOverKeptSeries ==
    \A i \in Validated :
        tasks[i].chart.yRange = RangeOver(tasks[i].body, LastOfCaption(tasks[i].body))

\* C8 witness: a validated request with two series of one Caption, whose range over
\* the kept series is not (0, 0) and differs from the range over every series
C8_Witness ==
    \E i \in Validated :
        /\ LastOfCaption(tasks[i].body) # DOMAIN NestedOf(tasks[i].body)
        /\ tasks[i].chart.yRange # <<0, 0>>
        /\ tasks[i].chart.yRange # RangeOver(tasks[i].body, DOMAIN NestedOf(tasks[i].body))

----------------------------------------------------------------------------
(* The retrieval route                                                     *)

FetchTasks == {i \in TaskIds : tasks[i].route = "fetch"}
AnsweredFetches == FetchTasks \cap Answered

\* an argument spelled as a UUID, in braces or not
WellFormed(arg) == arg.form \in {"plain", "braced"}

\* <imageDirectory>/<id>.png for the UUID an argument spells
FileOf(arg) == <<"imagepath", UuidString("plain", arg.val), ".png">>

SextetOf(c) == (CHOOSE n \in 1..64 : Base64Alphabet[n] = c) - 1

RECURSIVE fromBase64(_)
\* the bytes a base64 text stands for
fromBase64(text) ==
    IF Len(text) < 4 THEN <<>>
    ELSE LET a == SextetOf(text[1])
             b == SextetOf(text[2])
         IN  IF text[3] = "=" THEN <<a * 4 + b \div 16>>
             ELSE IF text[4] = "="
             THEN <<a * 4 + b \div 16, (b % 16) * 16 + SextetOf(text[3]) \div 4>>
             ELSE <<a * 4 + b \div 16, (b % 16) * 16 + SextetOf(text[3]) \div 4,
                    (SextetOf(text[3]) % 4) * 64 + SextetOf(text[4])>>
                  \o fromBase64(SubSeq(text, 5, Len(text)))

IsPrefix(s, t) == Len(s) <= Len(t) /\ SubSeq(t, 1, Len(s)) = s

\* the outcomes of an answered retrieval of a non-nil UUID: the file was looked for;
\* not-found when there is no file, and without an open; the open-failure message
\* only for a file that exists; else Data, the base64 text of the bytes read
FetchOutcome(i) ==
    /\ "exists" \in tasks[i].ops
    /\ FileOf(tasks[i].path.arg) \notin DOMAIN files
           => tasks[i].resp = MessageResponse(MsgNotLinked)
    /\ tasks[i].resp = MessageResponse(MsgNotLinked) => tasks[i].ops = {"exists"}
    /\ tasks[i].resp = MessageResponse(MsgInternal)
           => FileOf(tasks[i].path.arg) \in DOMAIN files /\ "read" \notin tasks[i].ops
    /\ \/ tasks[i].resp \in {MessageResponse(MsgNotLinked), MessageResponse(MsgInternal)}
       \/ /\ tasks[i].resp.status = 200
          /\ DOMAIN tasks[i].resp.json = {"Message", "Data"}
          /\ Len(tasks[i].resp.json.Data) % 4 = 0
          /\ fromBase64(tasks[i].resp.json.Data) = tasks[i].read
          /\ FileOf(tasks[i].path.arg) \in DOMAIN files
          /\ IsPrefix(tasks[i].read, files[FileOf(tasks[i].path.arg)])

\* an argument that is no UUID gets the invalid-identifier message and the task
\* touches no file
RejectedUnseen(i) ==
    tasks[i].resp = MessageResponse(MsgNotUuid) /\ tasks[i].ops = {}

C4_WitnessNil ==
    \E i \in AnsweredFetches :
        WellFormed(tasks[i].path.arg) /\ tasks[i].path.arg.val = NilUuid

----------------------------------------------------------------------------
(* Publish, Link and retrieval                                             *)

\* task i is a GET of the retrieval route with the id of a Link that had been
\* returned when the request arrived
FetchOfReturnedLink(i) ==
    /\ i \in AnsweredFetches /\ tasks[i].method = "Get"
    /\ \E j \in tasks[i].done :
           /\ tasks[j].route = "post" /\ HasLink(j)
           /\ tasks[j].resp.json.Link.path.arg = tasks[i].path.arg

\* C1 (as claimed): the id of the Link a POST returned, given to the retrieval route
\* afterwards, gets Data holding image bytes that are not empty, whatever came
\* before, and also when the write of the image can fail.
C1_RoundTrip ==
    \A i \in TaskIds :
        FetchOfReturnedLink(i) => HasData(i) /\ tasks[i].resp.json.Data # <<>>

\* C5 (as claimed): a GET on the path of a returned Link is given to the retrieval
\* route, with the id that names the file the POST wrote.
C5_LinkAddressesRetrieval ==
    \A i \in Answered :
        \A j \in tasks[i].done :
            (/\ tasks[i].method = "Get"
             /\ tasks[j].route = "post" /\ HasLink(j)
             /\ tasks[i].path = tasks[j].resp.json.Link.path)
            => /\ tasks[i].route = "fetch"
               /\ fromString(tasks[i].path.arg) = tasks[j].uuid

OnChartRoute(i) ==
    \/ tasks[i].path = LinePath
    \/ tasks[i].path.prefix = <<"charts", "line", "result">> /\ tasks[i].path.arg # NoArg
IsChartPost(i) == tasks[i].method = "Post" /\ tasks[i].path = LinePath
IsResultGet(i) ==
    /\ tasks[i].method = "Get"
    /\ tasks[i].path.prefix = <<"charts", "line", "result">> /\ tasks[i].path.arg # NoArg

\* C6 (as claimed): on the chart routes only POST /charts/line runs the pipeline and
\* only GET /charts/line/result/<id> runs the fetch; any other method on either route
\* is answered "The used HTTP-Method is not implemented." and touches no file.
C6_MethodDispatch ==
    /\ \A i \in TaskIds : tasks[i].route = "post" => IsChartPost(i)
    /\ \A i \in TaskIds : tasks[i].route = "fetch" => IsResultGet(i)
    /\ \A i \in Answered :
           (OnChartRoute(i) /\ ~IsChartPost(i) /\ ~IsResultGet(i))
           => tasks[i].resp = MessageResponse(MsgNotImplemented) /\ tasks[i].ops = {}

\* the file names whose POST has been answered
Published ==
    {imageFile(toStringWithoutBraces(tasks[j].uuid)) : j \in {k \in AnsweredPosts : HasLink(k)}}

\* a step keeps every file, keeps the bytes of every published file, and changes no
\* file when it is a step of a task that is no POST, or the arrival of a request
ArtifactsKept ==
    /\ \A name \in DOMAIN files : name \in DOMAIN files'
    /\ \A name \in DOMAIN files \cap Published : files'[name] = files[name]
    /\ (\E i \in TaskIds : tasks[i].route # "post" /\ tasks'[i] # tasks[i]) => files' = files
    /\ Len(tasks') # Len(tasks) => files' = files

\* retrieval i arrived when the POST that drew its UUID had been answered
AfterPublish(i) ==
    \E j \in tasks[i].done :
        tasks[j].route = "post" /\ HasLink(j) /\ tasks[j].uuid = fromString(tasks[i].path.arg)

\* the Data of a retrieval that arrived after the publish is the text of the bytes the
\* file holds now; so two such retrievals of one id return the same Data
SameData ==
    /\ \A i \in AnsweredFetches :
           (HasData(i) /\ AfterPublish(i))
           => fromBase64(tasks[i].resp.json.Data) = files[FileOf(tasks[i].path.arg)]
    /\ \A i, j \in AnsweredFetches :
           (/\ HasData(i) /\ HasData(j) /\ AfterPublish(i) /\ AfterPublish(j)
            /\ FileOf(tasks[i].path.arg) = FileOf(tasks[j].path.arg))
           => tasks[i].resp.json.Data = tasks[j].resp.json.Data

C10_NoRace ==
    /\ \A i, j \in PostTasks :
           (i # j /\ tasks[i].uuid # NilUuid) => tasks[i].uuid # tasks[j].uuid
    /\ \A i \in AnsweredFetches :
           HasData(i) =>
               /\ ~tasks[i].inFlight
               /\ \E j \in PostTasks :
                      tasks[j].uuid = tasks[i].uuid /\ tasks[i].read = tasks[j].image

====
